---------------------------- MODULE Spec2Model ----------------------------
(***************************************************************************)
(* Model of the syllabus extraction pipeline of dcal:                      *)
(*   - the POST /api/upload/extract handler, in its blocking variant       *)
(*     (generateText + JSON.parse + zod, one retry; app/page.tsx 472-729)  *)
(*     and in its streaming variant (streamText + partialOutputStream,     *)
(*     onError callback; app/page.tsx 225-470);                            *)
(*   - the client stream consumers: uploadExtractSyllabus (lib/api.ts)     *)
(*     and the read loop inside processFileWithStreaming                   *)
(*     (components/DayOverviewModal.tsx 741-887);                          *)
(*   - the persistence step saveSelectedAssignments (lib/data.ts 211-281). *)
(* Line numbers are those of the files under src/src.                      *)
(* An optional value of the program (undefined / absent) is a sequence of  *)
(* length 0, a present value x is <<x>>.                                   *)
(***************************************************************************)
EXTENDS Integers, Sequences, FiniteSets, TLC

VARIABLES
    \* ---- endpoint handler (one request) ----
    variant,        \* "blocking" | "streaming": which route.ts serves the request
    hasFile,        \* formData.get("file") is truthy
    spc,            \* position of the handler
    out,            \* events enqueued on the response stream, in order
    closed,         \* number of controller.close() calls
    retryCount,     \* extractSyllabusData's retryCount parameter
    calls,          \* invocations of the external service (generateText / streamText)
    text,           \* the text generateText returned, <<>> before
    previousError,  \* extractSyllabusData's previousError parameter
    result,         \* what (stream)extractSyllabusData returned, <<>> before
    attempts,       \* every attempt so far: its outcome ("upstream" | "parse" |
                    \* "validation" | "ok") and the text it received
    onErrorFired,   \* streamText's onError callback has run
    partials,       \* partial objects yielded so far by partialOutputStream
    transport,      \* "open" | "broken": once the response stream is no longer
                    \* readable (the client went away), controller.enqueue
                    \* and controller.close throw
    errorWrites,    \* attempts of POST to enqueue a terminal error event
    \* ---- stream consumer (one upload) ----
    consumer,       \* "api": uploadExtractSyllabus (lib/api.ts) |
                    \* "modal": the read loop inside processFileWithStreaming
    sent,           \* the items the response body was made of (history)
    stream,         \* the response body, a sequence of characters
    pos,            \* characters handed out by reader.read() so far
    buffer,         \* the carry-over buffer
    dispatched,     \* the events passed to onProgress (api) or applied to the
                    \* progress state (modal), in order
    error,          \* api: the local variable error; modal: the error state
    cpc,            \* "reading" | "resolved" (success reported) |
                    \* "rejected" (failure reported)
    returned,       \* api: the value the promise resolved with;
                    \* modal: the value given to setExtractedData
    thrown,         \* the error message reported: the rejection's message
                    \* (api), the last value given to setError (modal)
    ended,          \* reader.read() has reported done
    locked,         \* the reader from response.body.getReader() holds its lock
    \* ---- persistence (saveSelectedAssignments) ----
    db,             \* the rows of the assignments table
    nextId,         \* source of fresh row ids
    saveCall,       \* the running (or last) call of saveSelectedAssignments
    reminder,       \* the running (or last) run of the reminder job
    \* ---- upload dialog ----
    modal,          \* state of the UploadModal component (useState values
                    \* and the isOpen prop)
    handled,        \* the events handleProgress was called with (history)
    mutations,      \* the mutations started by mutation.mutate, in order
    timers,         \* pending setTimeout callbacks: review (300 ms) and
                    \* reset (200 ms)
    isProcessing    \* components/UploadModal.tsx: the isProcessing state

svars == <<variant, hasFile, spc, out, closed, retryCount, calls, text,
           previousError, result, attempts, onErrorFired, partials, transport,
           errorWrites>>

cvars == <<consumer, sent, stream, pos, buffer, dispatched, error, cpc, returned, thrown,
           ended, locked>>

dvars == <<db, nextId, saveCall, reminder>>

uvars == <<modal, handled, mutations, timers, isProcessing>>

None == <<>>
Some(x) == <<x>>

-----------------------------------------------------------------------------
(* Bounds *)
MaxPartials == 2    \* partial objects per streamed response
MaxEvents == 2      \* events per response body read by the consumer
MaxDrafts == 2      \* drafts per call of saveSelectedAssignments
MaxProgress == 3    \* events handed to handleProgress per upload
MaxUploads == 2     \* files dropped on the upload dialog
MaxTimers == 2      \* reset timers of the upload dialog pending at a time

\* text.substring(0, 200): the length of the excerpt of a raw response
ExcerptLimit == 200

-----------------------------------------------------------------------------
(* Candidate values the external service can produce *)

GoodDraft == [name |-> Some("HW1"), due_date |-> Some("2026-02-15")]
GoodDraft2 == [name |-> Some("HW2"), due_date |-> Some("2026-03-01")]
\* name missing (or not a string)
BadDraft == [name |-> None, due_date |-> Some("2026-02-15")]
\* name is the empty string
UnnamedDraft == [name |-> Some(""), due_date |-> Some("2026-02-15")]
\* due_date is a string of another shape than YYYY-MM-DD
UndatedDraft == [name |-> Some("HW1"), due_date |-> Some("next Friday")]

\* what JSON.parse can return: course is a string or not, assignments an array or not
Candidates ==
    [course : {None, Some("CS1"), Some("")},
     assignments : {None, Some(<<>>), Some(<<GoodDraft>>), Some(<<BadDraft>>),
                    Some(<<GoodDraft, GoodDraft2>>), Some(<<UnnamedDraft>>),
                    Some(<<GoodDraft, UndatedDraft>>)}]

\* text.length of a response, in characters: short and long responses
TextLengths == {150, 250}

\* a response text: fenced in ```json ... ``` or not; its body is JSON of a
\* candidate, or not JSON at all (None)
Texts == [fenced : BOOLEAN, body : {None} \cup {Some(v) : v \in Candidates},
          length : TextLengths]

\* lines 590-594: the text inside a markdown code fence, else the text
StripFence(t) == t.body

\* line 600: JSON.parse throws on a body that is not JSON
JsonParses(jsonText) == jsonText # None

\* SyllabusSchema / AssignmentSchema: z.string() accepts every string
AssignmentSchemaAccepts(d) == d.name # None /\ d.due_date # None

\* mutant: the assignments array must be non-empty (z.array(...).min(1))
SyllabusSchemaAccepts_NonEmpty(v) ==
    /\ v.course # None
    /\ v.assignments # None
    /\ Len(v.assignments[1]) > 0
    /\ \A i \in 1..Len(v.assignments[1]) : AssignmentSchemaAccepts(v.assignments[1][i])

SyllabusSchemaAccepts(v) ==
    /\ v.course # None
    /\ v.assignments # None
    /\ \A i \in 1..Len(v.assignments[1]) : AssignmentSchemaAccepts(v.assignments[1][i])

\* the index of an array element as it appears in a zod issue path
IndexText(i) == CASE i = 1 -> "0" [] i = 2 -> "1" [] OTHER -> "n"

\* the issues of the ZodError of AssignmentSchema for element i
AssignmentIssues(d, i) ==
    (IF d.name = None
       THEN << [path |-> <<"assignments", IndexText(i), "name">>,
                message |-> "Required"] >>
       ELSE << >>) \o
    (IF d.due_date = None
       THEN << [path |-> <<"assignments", IndexText(i), "due_date">>,
                message |-> "Required"] >>
       ELSE << >>)

RECURSIVE ElementIssues(_, _)
ElementIssues(list, i) ==
    IF i > Len(list) THEN << >>
    ELSE AssignmentIssues(list[i], i) \o ElementIssues(list, i + 1)

\* the issues of the ZodError SyllabusSchema.parse throws for a parsed object
Issues(v) ==
    (IF v.course = None
       THEN << [path |-> <<"course">>, message |-> "Required"] >> ELSE << >>) \o
    (IF v.assignments = None
       THEN << [path |-> <<"assignments">>, message |-> "Required"] >>
       ELSE ElementIssues(v.assignments[1], 1))

\* mutant: only the first issue is reported
FormatValidationErrors_FirstOnly(issues) ==
    IF issues = << >> THEN << >>
    ELSE << [path |-> issues[1].path, message |-> issues[1].message] >>

\* lines 495-504: one line `- ${path}: ${message}` per issue, the path being
\* the parts of issue.path joined by "."; the lines are joined by newlines
FormatValidationErrors(issues) ==
    [k \in 1..Len(issues) |-> [path |-> issues[k].path,
                               message |-> issues[k].message]]

\* line 613: String.prototype.substring(0, n)
Substring(t, n) == [of |-> t, length |-> IF t.length < n THEN t.length ELSE n]

\* lines 611-614: the error of the second undecodable response
ParseErrorText(t) ==
    [kind |-> "parse", excerpt |-> Some(Substring(t, ExcerptLimit)), lines |-> << >>]

\* lines 632-635: the error of the second schema-invalid response
ValidationErrorText(v) ==
    [kind |-> "validation", excerpt |-> None,
     lines |-> FormatValidationErrors(Issues(v))]

\* SyllabusSchema.parse(parsed) of an accepted value
SchemaData(v) == [course |-> v.course[1], assignments |-> v.assignments[1]]

ValidData == {SchemaData(v) : v \in {c \in Candidates : SyllabusSchemaAccepts(c)}}

\* partial objects of partialOutputStream
PartialObjects ==
    {[course |-> None, assignments |-> None],
     [course |-> Some("CS1"), assignments |-> None],
     [course |-> Some("CS1"), assignments |-> Some(<<GoodDraft>>)]}

-----------------------------------------------------------------------------
(* Events on the response stream *)

Event(stage, message, data, err, partialData) ==
    [stage |-> stage, message |-> message, data |-> data, error |-> err,
     partialData |-> partialData]

\* sendProgress(controller, stage, message[, partialData])
ProgressEvent(stage, message) == Event(stage, Some(message), None, None, None)
PartialEvent(stage, message, p) == Event(stage, Some(message), None, None, Some(p))
\* JSON.stringify({stage: "error", error, timestamp})
ErrorEvent(err) == Event("error", None, None, Some(err), None)

Success(data) == [success |-> TRUE, data |-> Some(data), error |-> None]
Failure(err) == [success |-> FALSE, data |-> None, error |-> Some(err)]

SummaryMessage(data) == "Extracted n assignment(s)"

\* blocking variant, lines 701-708: a complete event with the message, then a
\* second complete event with the data
BlockingCompleteEvents(data) ==
    << ProgressEvent("complete", SummaryMessage(data)),
       Event("complete", None, Some(data), None, None) >>

\* streaming variant, lines 436-442: one complete event with message and data
StreamingCompleteEvents(data) ==
    << Event("complete", Some(SummaryMessage(data)), Some(data), None, None) >>

-----------------------------------------------------------------------------
(* The handler *)

ServerInit ==
    /\ variant \in {"blocking", "streaming"}
    /\ hasFile \in BOOLEAN
    /\ spc = "start"
    /\ out = <<>>
    /\ closed = 0
    /\ retryCount = 0
    /\ calls = 0
    /\ text = None
    /\ previousError = None
    /\ result = None
    /\ attempts = <<>>
    /\ onErrorFired = FALSE
    /\ partials = 0
    /\ transport = "open"
    /\ errorWrites = 0

\* no request
ServerIdle ==
    /\ variant = "blocking"
    /\ hasFile = FALSE
    /\ spc = "idle"
    /\ out = <<>>
    /\ closed = 0
    /\ retryCount = 0
    /\ calls = 0
    /\ text = None
    /\ previousError = None
    /\ result = None
    /\ attempts = <<>>
    /\ onErrorFired = FALSE
    /\ partials = 0
    /\ transport = "open"
    /\ errorWrites = 0

\* mutant: the handler goes on without looking at the file
FileMissing_Unchecked(file) == FALSE

\* lines 391 and 667: if (!file)
FileMissing(file) == ~file

\* the callback given to streamExtractSyllabusData (lines 413-419) wraps
\* sendProgress in try/catch: on a broken transport the event is lost
Enqueue(evs) == IF transport = "open" THEN out \o evs ELSE out

\* the catch of POST after an enqueue threw, n terminal error events having
\* been tried before in the same run. Streaming variant, lines 445-458: the
\* error event is tried inside try/catch, then controller.close() is called.
\* Blocking variant, lines 710-718: the enqueue of the error event throws out
\* of the catch and controller.close() is not reached.
PostCatch(n) ==
    /\ errorWrites' = errorWrites + n + 1
    /\ out' = out
    /\ closed' = IF variant = "streaming" THEN closed + 1 ELSE closed
    /\ spc' = "done"

\* POST, both variants: the first event, then request.formData()
\* (lines 386-402 and 662-678)
ReceiveUpload ==
    /\ spc = "start"
    /\ IF transport = "broken"
         THEN PostCatch(0)
         ELSE IF FileMissing(hasFile)
           THEN /\ out' = out \o << ProgressEvent("uploading", "Receiving PDF file..."),
                                   ErrorEvent("No file provided") >>
                /\ errorWrites' = errorWrites + 1
                /\ closed' = closed + 1
                /\ spc' = "done"
           ELSE /\ out' = out \o
                     << ProgressEvent("uploading", "Receiving PDF file..."),
                        ProgressEvent("uploading", "Processing file...") >> \o
                     (IF variant = "streaming"
                        THEN << ProgressEvent("analyzing", "Sending to AI for analysis...") >>
                        ELSE << >>)
                /\ errorWrites' = errorWrites
                /\ closed' = closed
                /\ spc' = "attempt"
    /\ UNCHANGED <<cvars, dvars, uvars, variant, hasFile, transport, retryCount, calls, text, previousError,
                   result, attempts, onErrorFired, partials>>

\* extractSyllabusData lines 566-586: the analyzing event, then generateText,
\* which returns a text or throws
Invoke ==
    /\ spc = "attempt"
    /\ variant = "blocking"
    /\ IF transport = "broken"
         THEN \* line 567 throws inside the try: on to the catch of line 639
              /\ UNCHANGED <<out, calls>>
              /\ text' = None
              /\ spc' = "caught"
         ELSE /\ out' = Append(out, ProgressEvent("analyzing",
                       IF retryCount = 0 THEN "Sending PDF to AI for analysis..."
                                         ELSE "Retrying extraction..."))
              /\ calls' = calls + 1
              /\ \/ \E t \in Texts : text' = Some(t) /\ spc' = "response"
                 \/ text' = None /\ spc' = "caught"
    /\ errorWrites' = errorWrites
    /\ UNCHANGED <<cvars, dvars, uvars, variant, hasFile, transport, closed, retryCount, previousError, result,
                   attempts, onErrorFired, partials>>

\* the recursive call extractSyllabusData(base64, mimeType, send, 1, error)
Attempt(kind) == [kind |-> kind, text |-> text]

Retry(err, kind) ==
    /\ retryCount' = 1
    /\ previousError' = Some(err)
    /\ attempts' = Append(attempts, Attempt(kind))
    /\ text' = None
    /\ result' = result
    /\ spc' = "attempt"

GiveUp(err, kind) ==
    /\ result' = Some(Failure(err))
    /\ attempts' = Append(attempts, Attempt(kind))
    /\ spc' = "result"
    /\ UNCHANGED <<retryCount, previousError, text>>

\* mutant: the retry test is retryCount <= 1
RetryOrGiveUp_OffByOne(retryError, finalError, kind) ==
    IF retryCount <= 1 THEN Retry(retryError, kind) ELSE GiveUp(finalError, kind)

RetryOrGiveUp(retryError, finalError, kind) ==
    IF retryCount = 0 THEN Retry(retryError, kind) ELSE GiveUp(finalError, kind)

\* mutant: the extracting event is sent on the first attempt only
ResponseEvents_FirstOnly(rc) ==
    IF rc = 0
      THEN << ProgressEvent("extracting", "Processing AI response..."),
              ProgressEvent("validating", "Validating extracted data...") >>
      ELSE << ProgressEvent("validating", "Validating extracted data...") >>

\* lines 588 and 596: the two events between generateText and JSON.parse
ResponseEvents(rc) ==
    << ProgressEvent("extracting", "Processing AI response..."),
       ProgressEvent("validating", "Validating extracted data...") >>

\* extractSyllabusData lines 588-638: extracting, validating, JSON.parse, zod
Validate ==
    /\ spc = "response"
    /\ IF transport = "broken"
         THEN \* line 588 throws inside the try: on to the catch of line 639
              /\ UNCHANGED <<out, retryCount, previousError, result, attempts>>
              /\ text' = None
              /\ spc' = "caught"
         ELSE /\ out' = out \o ResponseEvents(retryCount)
              /\ LET jsonText == StripFence(text[1]) IN
                   IF ~JsonParses(jsonText)
                     THEN RetryOrGiveUp("Invalid JSON format", ParseErrorText(text[1]),
                                        "parse")
                     ELSE IF SyllabusSchemaAccepts(jsonText[1])
                       THEN /\ result' = Some(Success(SchemaData(jsonText[1])))
                            /\ attempts' = Append(attempts, Attempt("ok"))
                            /\ spc' = "result"
                            /\ UNCHANGED <<retryCount, previousError, text>>
                       ELSE RetryOrGiveUp("Validation failed: issues",
                                          ValidationErrorText(jsonText[1]),
                                          "validation")
    /\ errorWrites' = errorWrites
    /\ UNCHANGED <<cvars, dvars, uvars, variant, hasFile, transport, closed, calls, onErrorFired, partials>>

\* extractSyllabusData lines 639-653: the outer catch (generateText threw)
CatchUpstream ==
    /\ spc = "caught"
    /\ RetryOrGiveUp("upstream message", "Failed to process the syllabus: upstream",
                     "upstream")
    /\ errorWrites' = errorWrites
    /\ UNCHANGED <<cvars, dvars, uvars, variant, hasFile, transport, out, closed, calls, onErrorFired, partials>>

\* streamExtractSyllabusData lines 301-335: analyzing, streamText, extracting
StreamInvoke ==
    /\ spc = "attempt"
    /\ variant = "streaming"
    /\ out' = Enqueue(<< ProgressEvent("analyzing", "Sending PDF to AI for analysis..."),
                         ProgressEvent("extracting", "Extracting assignments...") >>)
    /\ calls' = calls + 1
    /\ spc' = "streaming"
    /\ UNCHANGED <<cvars, dvars, uvars, variant, hasFile, transport, errorWrites, closed, retryCount, text, previousError,
                   result, attempts, onErrorFired, partials>>

\* lines 340-360: one partial object of partialOutputStream
StreamPartial ==
    /\ spc = "streaming"
    /\ ~onErrorFired
    /\ partials < MaxPartials
    /\ \E p \in PartialObjects :
         out' = Enqueue(<< PartialEvent("extracting", "Parsing syllabus data...", p) >>)
    /\ partials' = partials + 1
    /\ UNCHANGED <<cvars, dvars, uvars, variant, hasFile, transport, errorWrites, spc, closed, retryCount, calls, text,
                   previousError, result, attempts, onErrorFired>>

\* lines 329-332: streamText reports a stream error to onError
StreamOnError ==
    /\ spc = "streaming"
    /\ ~onErrorFired
    /\ out' = Enqueue(<< ProgressEvent("error", "Stream error: upstream") >>)
    /\ onErrorFired' = TRUE
    /\ UNCHANGED <<cvars, dvars, uvars, variant, hasFile, transport, errorWrites, spc, closed, retryCount, calls, text,
                   previousError, result, attempts, partials>>

\* lines 363-370: the final output resolves; validating, success
StreamOutput ==
    /\ spc = "streaming"
    /\ ~onErrorFired
    /\ out' = Enqueue(<< ProgressEvent("validating", "Validation complete") >>)
    /\ \E d \in ValidData : result' = Some(Success(d))
    /\ attempts' = Append(attempts, Attempt("ok"))
    /\ spc' = "result"
    /\ UNCHANGED <<cvars, dvars, uvars, variant, hasFile, transport, errorWrites, closed, retryCount, calls, text,
                   previousError, onErrorFired, partials>>

\* lines 371-377: the stream or the final output rejects (after onError, or
\* without it when no object matching the schema was generated)
StreamCatch ==
    /\ spc = "streaming"
    /\ result' = Some(Failure("Failed to process the syllabus: upstream"))
    /\ attempts' = Append(attempts, Attempt(IF onErrorFired THEN "upstream" ELSE "validation"))
    /\ spc' = "result"
    /\ UNCHANGED <<cvars, dvars, uvars, variant, hasFile, transport, errorWrites, out, closed, retryCount, calls, text,
                   previousError, onErrorFired, partials>>

\* POST lines 423-444 (streaming) and 690-709 (blocking): the terminal
\* event(s) and controller.close()
Finish ==
    /\ spc = "result"
    /\ IF transport = "broken"
         THEN \* the enqueue of the terminal event throws: on to the catch
              PostCatch(IF result[1].success THEN 0 ELSE 1)
         ELSE /\ out' = out \o
                   (IF ~result[1].success
                      THEN << ErrorEvent(result[1].error[1]) >>
                      ELSE IF variant = "blocking"
                             THEN BlockingCompleteEvents(result[1].data[1])
                             ELSE StreamingCompleteEvents(result[1].data[1]))
              /\ errorWrites' = IF result[1].success THEN errorWrites
                                ELSE errorWrites + 1
              /\ closed' = closed + 1
              /\ spc' = "done"
    /\ UNCHANGED <<cvars, dvars, uvars, variant, hasFile, transport, retryCount, calls, text, previousError,
                   result, attempts, onErrorFired, partials>>

ServerNext ==
    \/ ReceiveUpload
    \/ Invoke
    \/ Validate
    \/ CatchUpstream
    \/ StreamInvoke
    \/ StreamPartial
    \/ StreamOnError
    \/ StreamOutput
    \/ StreamCatch
    \/ Finish

\* the client goes away while the request is being served: the response
\* stream is cancelled and is no longer writable
TransportFails ==
    /\ spc \notin {"idle", "done"}
    /\ transport = "open"
    /\ transport' = "broken"
    /\ UNCHANGED <<cvars, dvars, uvars, variant, hasFile, spc, out, closed, retryCount,
                   calls, text, previousError, result, attempts, onErrorFired,
                   partials, errorWrites>>

\* the handler on a transport that can break
TransportNext ==
    \/ ServerNext
    \/ TransportFails

-----------------------------------------------------------------------------
(* The stream consumer: uploadExtractSyllabus, lib/api.ts *)

\* The response body is a sequence of characters. The characters of the
\* newline and the space are single characters; the word data, a stage name
\* and a payload inside the JSON text are one character each, so a read chunk
\* can end inside the "data: " prefix, before, inside or after a JSON object,
\* and between two newlines.
LF == "LF"
DataPrefix == <<"data", ":", " ">>
Whitespace == {" ", LF}

StageTokens == {"uploading", "analyzing", "extracting", "validating", "complete", "error"}
DataTokens == {"D1"}                \* a data payload
MessageTokens == {"M1"}             \* an error text sent by the server
PayloadTokens == {"-"} \cup DataTokens \cup MessageTokens

StreamEnded == "Stream ended unexpectedly. The extraction may have failed or timed out."
DefaultError == "An error occurred during extraction"
SyntaxErrorMessage == "Unexpected token in JSON"
NetworkError == "network error"

\* what the server (or anything else on the wire) puts between two blank lines
Items ==
    { [stage |-> "extracting", payload |-> "-"],
      [stage |-> "complete", payload |-> "-"],     \* complete without data (line 701)
      [stage |-> "complete", payload |-> "D1"],
      [stage |-> "error", payload |-> "-"],        \* error stage without error text (line 331)
      [stage |-> "error", payload |-> "M1"],
      [stage |-> "junk", payload |-> "-"] }        \* a data: line that is not JSON

\* JSON.stringify of an event; a junk item is a JSON text cut short
Json(item) ==
    IF item.stage = "junk" THEN <<"{", "extracting">>
    ELSE <<"{", item.stage, item.payload, "}">>

\* the event an item is the JSON text of
EventOf(item) ==
    [stage |-> item.stage,
     data |-> IF item.payload \in DataTokens THEN Some(item.payload) ELSE None,
     error |-> IF item.payload \in MessageTokens THEN Some(item.payload) ELSE None]

Separator(sepLen) == [i \in 1..sepLen |-> LF]

\* sendProgress: `data: ${JSON.stringify(data)}\n\n`
Frame(item, sepLen) == DataPrefix \o Json(item) \o Separator(sepLen)

RECURSIVE Frames(_, _)
Frames(items, sepLen) ==
    IF items = <<>> THEN <<>>
    ELSE Frame(Head(items), sepLen) \o Frames(Tail(items), sepLen)

Front(q) == SubSeq(q, 1, Len(q) - 1)
Last(q) == q[Len(q)]

\* a body of the items, separated by sepLen newlines; the last item ends with
\* the separator ("sep"), without it ("none"), or is cut inside its JSON ("cut")
Body(items, sepLen, ending) ==
    IF items = <<>> THEN <<>>
    ELSE Frames(Front(items), sepLen) \o
         CASE ending = "sep" -> Frame(Last(items), sepLen)
           [] ending = "none" -> DataPrefix \o Json(Last(items))
           [] ending = "cut" -> DataPrefix \o SubSeq(Json(Last(items)), 1, 2)

\* the body the endpoint handler writes for these events
WireBody(items) == Body(items, 2, "sep")

\* String.prototype.trim
RECURSIVE TrimStart(_)
TrimStart(q) ==
    IF q # <<>> /\ Head(q) \in Whitespace THEN TrimStart(Tail(q)) ELSE q

RECURSIVE TrimEnd(_)
TrimEnd(q) ==
    IF q # <<>> /\ Last(q) \in Whitespace THEN TrimEnd(Front(q)) ELSE q

Trim(q) == TrimEnd(TrimStart(q))

StartsWith(q, prefix) ==
    Len(q) >= Len(prefix) /\ SubSeq(q, 1, Len(prefix)) = prefix

Slice(q, n) == SubSeq(q, n + 1, Len(q))

\* buffer.split(/\n\n|\n/): at a newline the two-newline alternative is tried first
RECURSIVE SplitEventsFrom(_, _, _, _)
SplitEventsFrom(q, i, cur, acc) ==
    IF i > Len(q) THEN Append(acc, cur)
    ELSE IF q[i] = LF
      THEN IF i + 1 <= Len(q) /\ q[i + 1] = LF
             THEN SplitEventsFrom(q, i + 2, <<>>, Append(acc, cur))
             ELSE SplitEventsFrom(q, i + 1, <<>>, Append(acc, cur))
      ELSE SplitEventsFrom(q, i + 1, Append(cur, q[i]), acc)

SplitEvents(q) == SplitEventsFrom(q, 1, <<>>, <<>>)

\* buffer.split("\n")
RECURSIVE SplitLinesFrom(_, _, _, _)
SplitLinesFrom(q, i, cur, acc) ==
    IF i > Len(q) THEN Append(acc, cur)
    ELSE IF q[i] = LF
      THEN SplitLinesFrom(q, i + 1, <<>>, Append(acc, cur))
      ELSE SplitLinesFrom(q, i + 1, Append(cur, q[i]), acc)

SplitLines(q) == SplitLinesFrom(q, 1, <<>>, <<>>)

\* mutant: every chunk is taken on its own, the unfinished tail is dropped
CarryOver_Dropped(events) == <<>>

\* line 119: buffer = events.pop() || ""
CarryOver(events) == Last(events)

\* JSON.parse succeeds on the text
JsonValid(j) ==
    /\ Len(j) = 4
    /\ j[1] = "{"
    /\ j[2] \in StageTokens
    /\ j[3] \in PayloadTokens
    /\ j[4] = "}"

\* JSON.parse(jsonStr) as SSEProgressEvent
JsonParse(j) ==
    [stage |-> j[2],
     data |-> IF j[3] \in DataTokens THEN Some(j[3]) ELSE None,
     error |-> IF j[3] \in MessageTokens THEN Some(j[3]) ELSE None]

\* data.error || "An error occurred during extraction"
ErrorText(data) == IF data.error # None THEN data.error[1] ELSE DefaultError

\* line 143: e instanceof Error && e.message !== error
Rethrows(message, err) == err = None \/ message # err[1]

\* the state of one pass over the events of a chunk
Loop(disp, err) == [disp |-> disp, err |-> err, status |-> "reading",
                    ret |-> None, thr |-> None]

\* lines 121-148: one event of the main loop
HandleEvent(st, event) ==
    LET line == Trim(event) IN
    IF line = <<>> \/ ~StartsWith(line, DataPrefix) THEN st
    ELSE LET jsonStr == Slice(line, Len(DataPrefix)) IN
      IF ~JsonValid(jsonStr)
        THEN \* JSON.parse throws a SyntaxError into the catch of line 142
             IF Rethrows(SyntaxErrorMessage, st.err)
               THEN [st EXCEPT !.status = "rejected", !.thr = Some(SyntaxErrorMessage)]
               ELSE st
        ELSE LET data == JsonParse(jsonStr)
                 told == [st EXCEPT !.disp = Append(st.disp, data)]
             IN  IF data.stage = "error"
                   THEN \* lines 133-134, then the catch of line 142
                        LET set == [told EXCEPT !.err = Some(ErrorText(data))] IN
                        IF Rethrows(ErrorText(data), set.err)
                          THEN [set EXCEPT !.status = "rejected",
                                           !.thr = Some(ErrorText(data))]
                          ELSE set
                   ELSE IF data.stage = "complete" /\ data.data # None
                     THEN [told EXCEPT !.status = "resolved", !.ret = data.data]
                     ELSE told

RECURSIVE HandleEvents(_, _)
HandleEvents(st, events) ==
    IF events = <<>> \/ st.status # "reading" THEN st
    ELSE HandleEvents(HandleEvent(st, Head(events)), Tail(events))

\* lines 80-97: one line of the buffer left when the stream is done
HandleFinalLine(st, line) ==
    IF Trim(line) = <<>> \/ ~StartsWith(line, DataPrefix) THEN st
    ELSE LET jsonStr == Slice(line, Len(DataPrefix)) IN
      IF ~JsonValid(jsonStr) THEN st      \* logged
      ELSE LET data == JsonParse(jsonStr)
               told == [st EXCEPT !.disp = Append(st.disp, data)]
           IN  IF data.stage = "complete" /\ data.data # None
                 THEN [told EXCEPT !.ret = data.data]
                 ELSE IF data.stage = "error"
                   THEN [told EXCEPT !.err = Some(ErrorText(data))]
                   ELSE told

RECURSIVE HandleFinalLines(_, _)
HandleFinalLines(st, lines) ==
    IF lines = <<>> THEN st
    ELSE HandleFinalLines(HandleFinalLine(st, Head(lines)), Tail(lines))

\* processFileWithStreaming lines 831-870: one event of the main loop
ModalHandleEvent(st, event) ==
    LET line == Trim(event) IN
    IF line = <<>> \/ ~StartsWith(line, DataPrefix) THEN st
    ELSE LET jsonStr == Slice(line, Len(DataPrefix)) IN
      IF ~JsonValid(jsonStr) THEN st      \* logged by the catch of line 867
      ELSE LET data == JsonParse(jsonStr)
               told == [st EXCEPT !.disp = Append(st.disp, data)]
           IN  IF data.stage = "error"
                 THEN [told EXCEPT !.status = "rejected",
                                   !.err = Some(ErrorText(data)),
                                   !.thr = Some(ErrorText(data))]
                 ELSE IF data.stage = "complete"
                   THEN [told EXCEPT !.status = "resolved", !.ret = data.data]
                   ELSE told

RECURSIVE ModalHandleEvents(_, _)
ModalHandleEvents(st, events) ==
    IF events = <<>> \/ st.status # "reading" THEN st
    ELSE ModalHandleEvents(ModalHandleEvent(st, Head(events)), Tail(events))

\* processFileWithStreaming lines 785-811: one line of the final buffer;
\* status "resolved" stands for hasReceivedComplete
ModalHandleFinalLine(st, line) ==
    IF Trim(line) = <<>> \/ ~StartsWith(line, DataPrefix) THEN st
    ELSE LET jsonStr == Slice(line, Len(DataPrefix)) IN
      IF ~JsonValid(jsonStr) THEN st      \* logged
      ELSE LET data == JsonParse(jsonStr)
               told == [st EXCEPT !.disp = Append(st.disp, data)]
           IN  IF data.stage = "complete"
                 THEN [told EXCEPT !.status = "resolved", !.ret = data.data]
                 ELSE IF data.stage = "error"
                   THEN [told EXCEPT !.err = Some(ErrorText(data)),
                                     !.thr = Some(ErrorText(data))]
                   ELSE told

RECURSIVE ModalHandleFinalLines(_, _)
ModalHandleFinalLines(st, lines) ==
    IF lines = <<>> THEN st
    ELSE ModalHandleFinalLines(ModalHandleFinalLine(st, Head(lines)), Tail(lines))

\* lines 101-104: error || "Stream ended unexpectedly. ..."
EndOfStreamError(err) == IF err # None THEN err[1] ELSE StreamEnded

\* blank-line or bare-newline separators; the last event complete, without
\* its separator, or cut short
Framings == {<<2, "sep">>, <<1, "sep">>, <<2, "none">>, <<2, "cut">>}

RECURSIVE SeqsUpTo(_, _)
SeqsUpTo(S, n) ==
    IF n = 0 THEN {<<>>}
    ELSE LET shorter == SeqsUpTo(S, n - 1) IN
         shorter \cup {Append(q, x) : q \in {r \in shorter : Len(r) = n - 1}, x \in S}

ConsumerInit ==
    /\ consumer \in {"api", "modal"}
    /\ \E items \in SeqsUpTo(Items, MaxEvents), framing \in Framings :
         /\ sent = items
         /\ stream = Body(items, framing[1], framing[2])
    /\ pos = 0
    /\ buffer = <<>>
    /\ dispatched = <<>>
    /\ error = None
    /\ cpc = "reading"
    /\ returned = None
    /\ thrown = None
    /\ ended = FALSE
    /\ locked = TRUE

\* no call
ConsumerIdle ==
    /\ consumer = "api"
    /\ sent = <<>>
    /\ stream = <<>>
    /\ pos = 0
    /\ buffer = <<>>
    /\ dispatched = <<>>
    /\ error = None
    /\ cpc = "idle"
    /\ returned = None
    /\ thrown = None
    /\ ended = FALSE
    /\ locked = FALSE

\* the lock of the reader after the loop was left or not (status):
\* processFileWithStreaming releases it in its finally block
\* (DayOverviewModal.tsx lines 878-886); uploadExtractSyllabus (api.ts lines
\* 62-151) has no releaseLock() and no cancel()
LockAfter(who, status, lock) ==
    IF who = "modal" /\ status # "reading" THEN FALSE ELSE lock

\* lines 74, 114-149: reader.read() yields a chunk of any length
ReadChunk ==
    /\ cpc = "reading"
    /\ \E n \in 1..(Len(stream) - pos) :
         LET chunk == SubSeq(stream, pos + 1, pos + n)
             events == SplitEvents(buffer \o chunk)
             st == IF consumer = "api"
                     THEN HandleEvents(Loop(dispatched, error), Front(events))
                     ELSE ModalHandleEvents(Loop(dispatched, error), Front(events))
         IN  /\ pos' = pos + n
             /\ buffer' = CarryOver(events)
             /\ dispatched' = st.disp
             /\ error' = st.err
             /\ cpc' = st.status
             /\ returned' = st.ret
             /\ thrown' = st.thr
             /\ locked' = LockAfter(consumer, st.status, locked)
    /\ UNCHANGED <<svars, dvars, uvars, consumer, sent, stream, ended>>

\* processFileWithStreaming lines 780-821: reader.read() reports done
ModalEndOfStream ==
    /\ consumer = "modal"
    /\ cpc = "reading"
    /\ pos = Len(stream)
    /\ LET st == IF Trim(buffer) # <<>>
                   THEN ModalHandleFinalLines(Loop(dispatched, error),
                                              SplitLines(buffer))
                   ELSE Loop(dispatched, error)
           hasReceivedComplete == st.status = "resolved"
       IN  /\ dispatched' = st.disp
           /\ returned' = st.ret
           /\ IF ~hasReceivedComplete
                THEN \* lines 814-819: setError("Stream ended unexpectedly. ...")
                     /\ cpc' = "rejected"
                     /\ error' = Some(StreamEnded)
                     /\ thrown' = Some(StreamEnded)
                ELSE /\ cpc' = "resolved"
                     /\ error' = st.err
                     /\ thrown' = st.thr
    /\ ended' = TRUE
    /\ locked' = LockAfter(consumer, cpc', locked)
    /\ UNCHANGED <<svars, dvars, uvars, consumer, sent, stream, pos, buffer>>

\* lines 74-112: reader.read() reports done
EndOfStream ==
    /\ consumer = "api"
    /\ cpc = "reading"
    /\ pos = Len(stream)
    /\ LET st == IF Trim(buffer) # <<>>
                   THEN HandleFinalLines(Loop(dispatched, error), SplitLines(buffer))
                   ELSE Loop(dispatched, error)
           hasReceivedComplete == st.ret # None
       IN  /\ dispatched' = st.disp
           /\ error' = st.err
           /\ IF ~hasReceivedComplete
                THEN /\ cpc' = "rejected"
                     /\ thrown' = Some(EndOfStreamError(st.err))
                     /\ returned' = None
                ELSE /\ cpc' = "resolved"
                     /\ returned' = st.ret
                     /\ thrown' = None
    /\ ended' = TRUE
    /\ locked' = LockAfter(consumer, cpc', locked)
    /\ UNCHANGED <<svars, dvars, uvars, consumer, sent, stream, pos, buffer>>

\* line 74: reader.read() rejects (the connection broke)
ReadFails ==
    /\ cpc = "reading"
    /\ pos < Len(stream)
    /\ cpc' = "rejected"
    /\ thrown' = Some(NetworkError)
    /\ locked' = LockAfter(consumer, "rejected", locked)
    /\ UNCHANGED <<svars, dvars, uvars, consumer, sent, stream, pos, buffer, dispatched,
                   error, returned, ended>>

\* components/UploadModal.tsx lines 69-96: one line of the read loop of the
\* dialog; an error or complete event sets isProcessing to false and returns
DialogHandleLine(st, line) ==
    IF ~StartsWith(line, DataPrefix) THEN st
    ELSE LET jsonStr == Slice(line, Len(DataPrefix)) IN
      IF ~JsonValid(jsonStr) THEN st      \* logged by the catch of line 93
      ELSE LET data == JsonParse(jsonStr)
               told == [st EXCEPT !.disp = Append(st.disp, data)]
           IN  IF data.stage = "error"
                 THEN [told EXCEPT !.status = "rejected",
                                   !.err = Some(ErrorText(data))]
                 ELSE IF data.stage = "complete"
                   THEN [told EXCEPT !.status = "resolved", !.ret = data.data]
                   ELSE told

RECURSIVE DialogHandleLines(_, _)
DialogHandleLines(st, lines) ==
    IF lines = <<>> \/ st.status # "reading" THEN st
    ELSE DialogHandleLines(DialogHandleLine(st, Head(lines)), Tail(lines))

\* components/UploadModal.tsx lines 34-59: processFileWithStreaming has set
\* isProcessing and obtained the reader of a response body
UploadInit ==
    /\ consumer = "dialog"
    /\ \E items \in SeqsUpTo(Items, MaxEvents), framing \in Framings :
         /\ sent = items
         /\ stream = Body(items, framing[1], framing[2])
    /\ pos = 0
    /\ buffer = <<>>
    /\ dispatched = <<>>
    /\ error = None
    /\ cpc = "reading"
    /\ returned = None
    /\ thrown = None
    /\ ended = FALSE
    /\ locked = TRUE
    /\ isProcessing = TRUE

\* components/UploadModal.tsx lines 61-97: reader.read() yields a chunk
DialogReadChunk ==
    /\ consumer = "dialog"
    /\ cpc = "reading"
    /\ \E n \in 1..(Len(stream) - pos) :
         LET chunk == SubSeq(stream, pos + 1, pos + n)
             lines == SplitLines(buffer \o chunk)
             st == DialogHandleLines(Loop(dispatched, error), Front(lines))
         IN  /\ pos' = pos + n
             /\ buffer' = CarryOver(lines)
             /\ dispatched' = st.disp
             /\ error' = st.err
             /\ cpc' = st.status
             /\ returned' = st.ret
             /\ isProcessing' = IF st.status = "reading" THEN isProcessing ELSE FALSE
    /\ UNCHANGED <<svars, dvars, modal, handled, mutations, timers, consumer,
                   sent, stream, thrown, ended, locked>>

\* components/UploadModal.tsx lines 62-63 and 104: reader.read() reports done,
\* the loop is left and processFileWithStreaming returns
DialogEndOfStream ==
    /\ consumer = "dialog"
    /\ cpc = "reading"
    /\ pos = Len(stream)
    /\ cpc' = "returned"
    /\ ended' = TRUE
    /\ UNCHANGED <<svars, dvars, uvars, consumer, sent, stream, pos, buffer,
                   dispatched, error, returned, thrown, locked>>

\* components/UploadModal.tsx lines 99-103: fetch or reader.read() rejects
\* and the catch sets the error and isProcessing
DialogReadFails ==
    /\ consumer = "dialog"
    /\ cpc = "reading"
    /\ pos < Len(stream)
    /\ cpc' = "rejected"
    /\ error' = Some(NetworkError)
    /\ isProcessing' = FALSE
    /\ UNCHANGED <<svars, dvars, modal, handled, mutations, timers, consumer,
                   sent, stream, pos, buffer, dispatched, returned, thrown,
                   ended, locked>>

\* the read loop of the dialog
UploadNext ==
    \/ DialogReadChunk
    \/ DialogEndOfStream
    \/ DialogReadFails

ConsumerNext ==
    \/ ReadChunk
    \/ EndOfStream
    \/ ModalEndOfStream
    \/ ReadFails


-----------------------------------------------------------------------------
(* Persistence: saveSelectedAssignments (lib/data.ts 211-281), the         *)
(* assignments table, and the reminder job that writes notificationSent    *)

\* due_date strings: year, month and day fields of a YYYY-MM-DD text, or a
\* text of another shape (wf = FALSE)
Date(y, m, d) == [wf |-> TRUE, y |-> y, m |-> m, d |-> d]
MalformedDate == [wf |-> FALSE, y |-> 0, m |-> 0, d |-> 0]

DueDates == {Date(2026, 2, 15), Date(2026, 2, 30), MalformedDate}

\* due_time: undefined, null, the empty string, an HH:MM text, or another text
Time(h, mi) == [kind |-> "string", wf |-> TRUE, h |-> h, mi |-> mi]
NoTime(kind) == [kind |-> kind, wf |-> FALSE, h |-> 0, mi |-> 0]

DueTimes == {NoTime("undefined"), NoTime("null"), NoTime("empty"),
             Time(9, 30), Time(23, 59)}

\* description?: string, absent or a text
NoDescription == "undefined"
Descriptions == {NoDescription, "Problem set"}

AssignmentNames == {"HW1", "HW2"}
CourseName == "CS 405"

Drafts == [name : AssignmentNames, description : Descriptions,
           due_date : DueDates, due_time : DueTimes]

\* the drafts of an upload whose items carry no description: every shape of
\* due_date and due_time
UndescribedDrafts == {d \in Drafts : d.description = NoDescription}

\* the drafts of an upload whose items have a date that parses and
\* due_time: null: every description
DatedDrafts == {d \in Drafts : d.due_date.wf /\ d.due_time = NoTime("null")}

\* a value that is falsy for the || operator
Falsy(t) == t.kind \in {"undefined", "null", "empty"}

\* mutant: ?? instead of ||, and midnight as the default
DefaultedTime_Midnight(t) == IF Falsy(t) THEN Time(0, 0) ELSE t

\* line 226: assignment.due_time || "23:59"
DefaultedTime(t) == IF Falsy(t) THEN Time(23, 59) ELSE t

IsLeap(y) == (y % 4 = 0 /\ y % 100 # 0) \/ y % 400 = 0

DaysInMonth(y, m) ==
    CASE m = 2 -> IF IsLeap(y) THEN 29 ELSE 28
      [] m \in {4, 6, 9, 11} -> 30
      [] OTHER -> 31

RECURSIVE DaysBeforeMonth(_, _)
DaysBeforeMonth(y, m) ==
    IF m = 1 THEN 0 ELSE DaysBeforeMonth(y, m - 1) + DaysInMonth(y, m - 1)

\* days from the start of 2026 to the start of year y
RECURSIVE DaysBeforeYear(_)
DaysBeforeYear(y) ==
    IF y <= 2026 THEN 0
    ELSE DaysBeforeYear(y - 1) + (IF IsLeap(y - 1) THEN 366 ELSE 365)

\* MakeDay: a day past the end of its month runs into the next month
DayNumber(y, m, d) == DaysBeforeYear(y) + DaysBeforeMonth(y, m) + (d - 1)

\* new Date(`${due_date}T${time}`) of the JavaScript engine of the server
\* (V8): month 1-12, day 1-31, hour 0-23, minute 0-59, local time
DateParses(date, t) ==
    /\ date.wf /\ t.wf
    /\ date.m \in 1..12 /\ date.d \in 1..31
    /\ t.h \in 0..23 /\ t.mi \in 0..59

\* getTime(), in seconds of local time since the start of 2026
DateValue(date, t) ==
    ((DayNumber(date.y, date.m, date.d) * 24 + t.h) * 60 + t.mi) * 60

\* lines 240 and 247: assignment.description || ""
DescriptionOrEmpty(d) == IF d = NoDescription THEN "" ELSE d

\* lines 237-243: the values of a new row; id and submitted take the defaults
\* of the table (defaultRandom(), default(false))
Row(id, name, description, ts) ==
    [id |-> id, courseName |-> CourseName, assignmentName |-> name,
     description |-> DescriptionOrEmpty(description), dueDateTime |-> ts,
     notificationSent |-> FALSE, submitted |-> FALSE]

Collides(r, name) == r.courseName = CourseName /\ r.assignmentName = name

\* lines 235-251: insert ... onConflictDoUpdate on (courseName, assignmentName)
\* mutant: the conflict branch leaves notificationSent alone
ConflictSet_KeepsNotification(r, description, ts) ==
    [r EXCEPT !.description = DescriptionOrEmpty(description),
              !.dueDateTime = ts]

\* mutant: the conflict branch also sets submitted back to its default
ConflictSet_ResetsSubmitted(r, description, ts) ==
    [r EXCEPT !.description = DescriptionOrEmpty(description),
              !.dueDateTime = ts,
              !.notificationSent = FALSE,
              !.submitted = FALSE]

\* lines 246-250: the columns the conflict branch sets
ConflictSet(r, description, ts) ==
    [r EXCEPT !.description = DescriptionOrEmpty(description),
              !.dueDateTime = ts,
              !.notificationSent = FALSE]

\* mutant: the statement inserts without a conflict target
Upsert_AlwaysInserts(rows, id, name, description, ts) ==
    rows \cup {Row(id, name, description, ts)}

Upsert(rows, id, name, description, ts) ==
    IF \E r \in rows : Collides(r, name)
      THEN {IF Collides(r, name) THEN ConflictSet(r, description, ts) ELSE r :
              r \in rows}
      ELSE rows \cup {Row(id, name, description, ts)}

SaveIdle ==
    /\ db = {}
    /\ nextId = 1
    /\ saveCall = [phase |-> "idle", successCount |-> 0, errors |-> <<>>,
                   item |-> None, ret |-> None]
    /\ reminder = [phase |-> "idle", pending |-> {}, last |-> None]

\* lines 211-222: a call starts
SaveStart ==
    /\ saveCall.phase # "running"
    /\ saveCall' = [phase |-> "running", successCount |-> 0, errors |-> <<>>,
                    item |-> None, ret |-> None]
    /\ UNCHANGED <<svars, cvars, uvars, db, nextId, reminder>>

\* lines 262-273: the value returned after the loop; the failure value has
\* no count, and its error is the joined messages or a fixed text
ReturnValue(successCount, errors) ==
    IF successCount = 0
      THEN [success |-> FALSE, count |-> None, errors |-> None,
            error |-> Some(IF Len(errors) > 0
                             THEN [text |-> "errors.join", of |-> errors]
                             ELSE [text |-> "No valid assignments found",
                                   of |-> <<>>])]
      ELSE [success |-> TRUE, count |-> Some(successCount),
            errors |-> IF Len(errors) > 0 THEN Some(errors) ELSE None,
            error |-> None]

\* mutant: an item that fails ends the call with the failure value
ItemError_Aborts(call, kind, draft) ==
    [call EXCEPT
       !.phase = "returned",
       !.errors = Append(@, [kind |-> kind, name |-> draft.name]),
       !.item = Some([draft |-> draft, outcome |-> kind]),
       !.ret = Some(ReturnValue(0, Append(call.errors,
                                          [kind |-> kind, name |-> draft.name])))]

\* lines 231-232 (kind "invalid": errors.push and continue) and 254-256
\* (kind "failed": the catch of the loop body): one message, the loop goes on
ItemError(call, kind, draft) ==
    [call EXCEPT
       !.errors = Append(@, [kind |-> kind, name |-> draft.name]),
       !.item = Some([draft |-> draft, outcome |-> kind])]

\* lines 224-258: the loop body for the next draft of selectedAssignments,
\* one of drafts; the insert succeeds or throws
LoopBody(drafts) ==
    /\ saveCall.phase = "running"
    /\ saveCall.successCount + Len(saveCall.errors) < MaxDrafts
    /\ \E draft \in drafts, writeFails \in BOOLEAN :
         LET time == DefaultedTime(draft.due_time) IN
         IF ~DateParses(draft.due_date, time)
           THEN /\ ~writeFails
                /\ saveCall' = ItemError(saveCall, "invalid", draft)
                /\ UNCHANGED <<db, nextId>>
           ELSE IF writeFails
             THEN /\ saveCall' = ItemError(saveCall, "failed", draft)
                  /\ UNCHANGED <<db, nextId>>
             ELSE /\ db' = Upsert(db, nextId, draft.name, draft.description,
                                  DateValue(draft.due_date, time))
                  /\ nextId' = IF \E r \in db : Collides(r, draft.name)
                                 THEN nextId ELSE nextId + 1
                  /\ saveCall' = [saveCall EXCEPT
                        !.successCount = @ + 1,
                        !.item = Some([draft |-> draft, outcome |-> "written"])]
    /\ UNCHANGED <<svars, cvars, uvars, reminder>>

\* the loop body on a draft without description
SaveItem == LoopBody(UndescribedDrafts)

\* the loop body on a draft with a date that parses
SaveDated == LoopBody(DatedDrafts)

\* lines 260-273: the loop is over; revalidatePath("/") marks the cached
\* pages stale and returns; the return value
SaveReturn ==
    /\ saveCall.phase = "running"
    /\ saveCall' = [saveCall EXCEPT
          !.phase = "returned",
          !.item = None,
          !.ret = Some(ReturnValue(saveCall.successCount, saveCall.errors))]
    /\ UNCHANGED <<svars, cvars, uvars, db, nextId, reminder>>

\* the reminder job (unnamed/part_001 lines 156-161): a reminder was sent
\* for a pending row
MarkNotificationSent ==
    /\ \E r \in db :
         /\ ~r.notificationSent
         /\ db' = (db \ {r}) \cup {[r EXCEPT !.notificationSent = TRUE]}
    /\ UNCHANGED <<svars, cvars, uvars, nextId, saveCall, reminder>>

\* toggleAssignmentSubmitted (unnamed/part_006 lines 8-35) for the id of a
\* row of the table; an id of no row changes nothing
ToggleSubmitted ==
    /\ \E r \in db :
         db' = (db \ {r}) \cup {[r EXCEPT !.submitted = ~r.submitted]}
    /\ UNCHANGED <<svars, cvars, uvars, nextId, saveCall, reminder>>

\* lines 235-251 as run by a second execution of saveSelectedAssignments
\* while the first is running: its statement is the only thing it shares
ConcurrentSaveItem ==
    /\ saveCall.phase = "running"
    /\ \E draft \in DatedDrafts :
         LET time == DefaultedTime(draft.due_time) IN
         /\ db' = Upsert(db, nextId, draft.name, draft.description,
                         DateValue(draft.due_date, time))
         /\ nextId' = IF \E r \in db : Collides(r, draft.name)
                        THEN nextId ELSE nextId + 1
    /\ UNCHANGED <<svars, cvars, uvars, saveCall, reminder>>

\* AddAssignmentModal line 81: description.trim() || null
FormDescriptions == {"null", "Problem set"}

\* the due dates the form of AddAssignmentModal submits
FormDueDateTimes ==
    {DateValue(d, Time(23, 59)) : d \in {x \in DueDates : x.wf}}

\* unnamed/part_006 lines 49-55: the columns the conflict branch of
\* createAssignment sets
CreateConflictSet(r, description, ts) ==
    [r EXCEPT !.description = description, !.dueDateTime = ts]

\* unnamed/part_006 lines 37-64: createAssignment(data)
CreateAssignment ==
    /\ \E name \in AssignmentNames, description \in FormDescriptions,
          ts \in FormDueDateTimes :
         IF \E r \in db : Collides(r, name)
           THEN /\ db' = {IF Collides(r, name)
                            THEN CreateConflictSet(r, description, ts) ELSE r :
                          r \in db}
                /\ nextId' = nextId
           ELSE /\ db' = db \cup {[id |-> nextId, courseName |-> CourseName,
                                   assignmentName |-> name,
                                   description |-> description,
                                   dueDateTime |-> ts,
                                   notificationSent |-> FALSE,
                                   submitted |-> FALSE]}
                /\ nextId' = nextId + 1
    /\ UNCHANGED <<svars, cvars, uvars, saveCall, reminder>>

\* the drafts of a corrected syllabus: a date that parses, no time and no
\* description
RescheduledDrafts == {d \in DatedDrafts : d.description = NoDescription}

\* the loop body on a draft of a corrected syllabus
SaveRescheduled == LoopBody(RescheduledDrafts)

\* unnamed/part_001 line 126: new Date() when the job runs, here the
\* midnight before a due date
ReminderNows == {DateValue(d, Time(0, 0)) : d \in {x \in DueDates : x.wf}}

\* unnamed/part_001 line 127: addHours(now, 24)
Next24h(now) == now + 24 * 3600

\* unnamed/part_001 lines 129-138: the rows selected as pending
PendingAssignments(now) ==
    {r \in db : /\ ~r.notificationSent
                /\ r.dueDateTime >= now
                /\ r.dueDateTime <= Next24h(now)}

\* unnamed/part_001 lines 125-142: the job starts, selects the pending rows
\* and returns at once when there are none
ReminderSelect ==
    /\ reminder.phase # "sending"
    /\ \E now \in ReminderNows :
         reminder' = [phase |-> IF PendingAssignments(now) = {}
                                  THEN "returned" ELSE "sending",
                      pending |-> PendingAssignments(now),
                      last |-> None]
    /\ UNCHANGED <<svars, cvars, uvars, db, nextId, saveCall>>

\* unnamed/part_001 lines 147-163: the loop body for a selected row, as it
\* was when selected: the e-mail announces its dueDateTime and, when it was
\* sent, the row of that id is marked
ReminderSend ==
    /\ reminder.phase = "sending"
    /\ \E a \in reminder.pending, wasSent \in BOOLEAN :
         /\ reminder' = [reminder EXCEPT
                           !.pending = @ \ {a},
                           !.last = IF wasSent THEN Some(a) ELSE None]
         /\ db' = IF wasSent
                    THEN {IF r.id = a.id THEN [r EXCEPT !.notificationSent = TRUE]
                          ELSE r : r \in db}
                    ELSE db
    /\ UNCHANGED <<svars, cvars, uvars, nextId, saveCall>>

\* unnamed/part_001 lines 165-169: the loop is over
ReminderReturn ==
    /\ reminder.phase = "sending"
    /\ reminder.pending = {}
    /\ reminder' = [reminder EXCEPT !.phase = "returned", !.last = None]
    /\ UNCHANGED <<svars, cvars, uvars, db, nextId, saveCall>>

\* saveSelectedAssignments while the reminder job runs
ReminderNext ==
    \/ SaveStart
    \/ SaveRescheduled
    \/ SaveReturn
    \/ ReminderSelect
    \/ ReminderSend
    \/ ReminderReturn

\* every writer of rows of the assignments table
WritersNext ==
    \/ SaveStart
    \/ SaveDated
    \/ SaveReturn
    \/ ConcurrentSaveItem
    \/ CreateAssignment
    \/ MarkNotificationSent

SaveNext ==
    \/ SaveStart
    \/ SaveItem
    \/ SaveReturn
    \/ MarkNotificationSent

\* the writers of the assignments table side by side
TableNext ==
    \/ SaveStart
    \/ SaveDated
    \/ SaveReturn
    \/ MarkNotificationSent
    \/ ToggleSubmitted


-----------------------------------------------------------------------------
(* The upload dialog: UploadModal (unnamed/part_007), its state and its     *)
(* progress callback                                                        *)

\* partialData: Partial<ExtractedSyllabusData>; course is absent or a string,
\* assignments is absent or an array (of assignment objects, named here)
FragmentCourses == {None, Some(""), Some("CS1"), Some("CS2")}
FragmentLists == {None, Some(<<>>), Some(<<"HW1">>), Some(<<"HW1", "HW2">>)}
Fragments == [course : FragmentCourses, assignments : FragmentLists]

\* a progress message of the dialog: a text, or the live count
\* `Found ${n} assignment(s) for ${course}...`
Message(txt) == [text |-> txt, n |-> 0, course |-> ""]
FoundMessage(n, course) == [text |-> "Found", n |-> n, course |-> course]

\* the data of the complete event: the whole list
FinalData == [course |-> "CS1", assignments |-> <<"HW1", "HW2", "HW3">>]

\* SSEProgressEvent values handed to onProgress
ProgressOf(stage, message, partialData, data, err) ==
    [stage |-> stage, message |-> message, partialData |-> partialData,
     data |-> data, error |-> err]

ProgressEvents ==
    {ProgressOf("extracting", Some("Parsing syllabus data..."), Some(f), None, None) :
       f \in Fragments}
    \cup {ProgressOf("analyzing", Some("Sending to AI for analysis..."), None, None, None),
          ProgressOf("complete", Some("Extracted n assignment(s)"), None, Some(FinalData), None),
          ProgressOf("error", None, None, None, Some("No file provided"))}

\* truthiness of a string (|| on line 42): absent and "" are falsy
TruthyString(c) == c # None /\ c[1] # ""

\* truthiness of an array (|| on line 43): only an absent one is falsy
TruthyArray(a) == a # None

\* lines 41-44: the updater of setExtractedData; prev is null or a value
Merge(prev, partial) ==
    [course |-> IF TruthyString(partial.course) THEN partial.course[1]
                ELSE IF prev # None /\ prev[1].course # "" THEN prev[1].course
                ELSE "",
     assignments |-> IF TruthyArray(partial.assignments) THEN partial.assignments[1]
                     ELSE IF prev # None THEN prev[1].assignments
                     ELSE <<>>]

\* lines 28-67: handleProgress(event), the state setters in the order of call
ApplyProgress(m, event) ==
    LET m1 == [m EXCEPT !.progressStage = event.stage]
        m2 == IF event.message # None
                THEN [m1 EXCEPT !.progressMessage = Message(event.message[1])]
                ELSE m1
        m3 == IF /\ event.partialData # None
                 /\ \/ TruthyString(event.partialData[1].course)
                    \/ TruthyArray(event.partialData[1].assignments)
                THEN LET merged == Merge(m2.extractedData, event.partialData[1]) IN
                     [m2 EXCEPT
                        !.extractedData = Some(merged),
                        !.progressMessage =
                           IF Len(merged.assignments) > 0
                             THEN FoundMessage(Len(merged.assignments), merged.course)
                             ELSE @]
                ELSE m2
        m4 == IF event.stage = "error" /\ event.error # None
                THEN [m3 EXCEPT !.progressMessage = Message(event.error[1])]
                ELSE m3
    IN  IF event.stage = "complete" /\ event.data # None
          THEN [m4 EXCEPT
                  !.extractedData = event.data,
                  !.progressMessage =
                     Message(IF event.message # None /\ event.message[1] # ""
                               THEN event.message[1] ELSE "Extraction complete!")]
          ELSE m4

DialogIdle ==
    /\ modal = [progressStage |-> "idle", progressMessage |-> Message(""),
                extractedData |-> None, showReviewModal |-> FALSE,
                isOpen |-> FALSE]
    /\ handled = <<>>
    /\ mutations = <<>>
    /\ timers = [review |-> 0, reset |-> 0]

\* no upload is being processed
ModalIdle == DialogIdle /\ isProcessing = FALSE

\* query-client.tsx line 24: defaultOptions.mutations.retry
MutationRetry == 1

\* a mutation started by mutation.mutate(file): it is pending until its
\* callbacks have run, observed while the useMutation observer follows it
NewMutation == [status |-> "pending", failureCount |-> 0, requests |-> 1,
                observed |-> TRUE]

\* line 110: isProcessing = mutation.isPending, the observer's view
IsProcessing ==
    \E k \in 1..Len(mutations) :
       mutations[k].observed /\ mutations[k].status = "pending"

\* the observer lets go of the mutations it followed (mutate, reset)
Unobserved == [k \in 1..Len(mutations) |-> [mutations[k] EXCEPT !.observed = FALSE]]

\* the parent renders the dialog with isOpen = true
Open ==
    /\ ~modal.isOpen
    /\ modal' = [modal EXCEPT !.isOpen = TRUE]
    /\ UNCHANGED <<svars, cvars, dvars, isProcessing, handled, mutations, timers>>

\* lines 90-108: a file was dropped on the drop zone (rendered while the
\* dialog is open, the review is not shown and nothing is processing), and
\* processFileWithStreaming runs
ProcessFileWithStreaming ==
    /\ modal.isOpen
    /\ ~modal.showReviewModal
    /\ ~IsProcessing
    /\ Len(mutations) < MaxUploads
    /\ modal' = [modal EXCEPT !.progressStage = "uploading",
                              !.progressMessage = Message("Preparing file..."),
                              !.extractedData = None]
    /\ mutations' = Append(Unobserved, NewMutation)
    /\ handled' = <<>>
    /\ UNCHANGED <<svars, cvars, dvars, isProcessing, timers>>

\* the stream consumer of a running request calls onProgress with an event
OnProgress(events) ==
    /\ \E k \in 1..Len(mutations) : mutations[k].status = "pending"
    /\ Len(handled) < MaxProgress
    /\ \E event \in events :
         /\ modal' = ApplyProgress(modal, event)
         /\ handled' = Append(handled, event)
    /\ UNCHANGED <<svars, cvars, dvars, isProcessing, mutations, timers>>

HandleProgress == OnProgress(ProgressEvents)

\* the events of a short upload: one fragment, the complete event, an error
LifecycleEvents ==
    {ProgressOf("extracting", Some("Parsing syllabus data..."),
                Some([course |-> Some("CS1"), assignments |-> Some(<<"HW1">>)]),
                None, None),
     ProgressOf("complete", Some("Extracted n assignment(s)"), None, Some(FinalData), None),
     ProgressOf("error", None, None, None, Some("No file provided"))}

HandleStreamEvent == OnProgress(LifecycleEvents)

\* the retryer of a mutation: a failed mutation function is run again while
\* failureCount is below the retry option
ShouldRetry(failureCount) == failureCount < MutationRetry

\* lines 70-75: uploadExtractSyllabus rejected and the mutation function is
\* run again, which sends another POST
RetryMutation ==
    \E k \in 1..Len(mutations) :
       /\ mutations[k].status = "pending"
       /\ ShouldRetry(mutations[k].failureCount)
       /\ mutations' = [mutations EXCEPT ![k].failureCount = @ + 1,
                                         ![k].requests = @ + 1]
       /\ UNCHANGED <<svars, cvars, dvars, isProcessing, modal, handled, timers>>

\* lines 83-87: onError, after the last rejection
MutationError ==
    \E k \in 1..Len(mutations) :
       /\ mutations[k].status = "pending"
       /\ ~ShouldRetry(mutations[k].failureCount)
       /\ mutations' = [mutations EXCEPT ![k].status = "error"]
       /\ modal' = [modal EXCEPT !.progressStage = "error",
                                 !.progressMessage = Message("Upload failed")]
       /\ UNCHANGED <<svars, cvars, dvars, isProcessing, handled, timers>>

\* lines 79-81: setTimeout(() => setShowReviewModal(true), 300)
ReviewDelay(m, t) ==
    <<m, [t EXCEPT !.review = @ + 1]>>

\* lines 76-82: onSuccess(data), uploadExtractSyllabus resolved with the data
\* of the complete event
MutationSuccess ==
    \E k \in 1..Len(mutations) :
       /\ mutations[k].status = "pending"
       /\ mutations' = [mutations EXCEPT ![k].status = "success"]
       /\ LET m == [modal EXCEPT !.extractedData = Some(FinalData),
                                 !.progressStage = "complete"]
          IN  /\ modal' = ReviewDelay(m, timers)[1]
              /\ timers' = ReviewDelay(m, timers)[2]
       /\ UNCHANGED <<svars, cvars, dvars, isProcessing, handled>>

\* lines 79-81: the 300 ms timer fires
ReviewTimer ==
    /\ timers.review > 0
    /\ timers' = [timers EXCEPT !.review = @ - 1]
    /\ modal' = [modal EXCEPT !.showReviewModal = TRUE]
    /\ UNCHANGED <<svars, cvars, dvars, isProcessing, handled, mutations>>

\* lines 120-132: handleClose as called from m
CloseFrom(m) ==
    IF IsProcessing
      THEN /\ modal' = m
           /\ timers' = timers
      ELSE /\ modal' = [m EXCEPT !.isOpen = FALSE]
           /\ timers' = [timers EXCEPT !.reset = @ + 1]

\* lines 120-132: the close and cancel buttons of the dialog, rendered while
\* the dialog is open and the review is not shown
HandleClose ==
    /\ modal.isOpen
    /\ ~modal.showReviewModal
    /\ ~IsProcessing
    /\ timers.reset < MaxTimers
    /\ CloseFrom(modal)
    /\ UNCHANGED <<svars, cvars, dvars, isProcessing, handled, mutations>>

\* lines 134-137 and 670-673: the review modal closes, by its close button
\* or after it has saved
HandleReviewClose ==
    /\ modal.showReviewModal
    /\ modal.extractedData # None
    /\ timers.reset < MaxTimers
    /\ CloseFrom([modal EXCEPT !.showReviewModal = FALSE])
    /\ UNCHANGED <<svars, cvars, dvars, isProcessing, handled, mutations>>

\* lines 124-130: the 200 ms timer fires
ResetTimer ==
    /\ timers.reset > 0
    /\ timers' = [timers EXCEPT !.reset = @ - 1]
    /\ modal' = [modal EXCEPT !.progressStage = "idle",
                              !.progressMessage = Message(""),
                              !.extractedData = None,
                              !.showReviewModal = FALSE]
    /\ mutations' = Unobserved
    /\ UNCHANGED <<svars, cvars, dvars, isProcessing, handled>>

\* the dialog receiving the progress events of one upload
ModalNext ==
    \/ Open
    \/ ProcessFileWithStreaming
    \/ HandleProgress

\* the dialog, its mutation and its timers over several uploads
DialogNext ==
    \/ Open
    \/ ProcessFileWithStreaming
    \/ HandleStreamEvent
    \/ RetryMutation
    \/ MutationError
    \/ MutationSuccess
    \/ ReviewTimer
    \/ HandleClose
    \/ HandleReviewClose
    \/ ResetTimer

-----------------------------------------------------------------------------
(* Specifications: one per component, the other components idle *)

vars == <<svars, cvars, dvars, uvars>>

\* the endpoint handler serving one request
Init == ServerInit /\ ConsumerIdle /\ SaveIdle /\ ModalIdle
Spec == Init /\ [][ServerNext]_vars

\* the endpoint handler serving one request whose client may go away
InitTransport == ServerInit /\ ConsumerIdle /\ SaveIdle /\ ModalIdle
SpecTransport == InitTransport /\ [][TransportNext]_vars

\* uploadExtractSyllabus consuming one response body
InitConsumer == ServerIdle /\ ConsumerInit /\ SaveIdle /\ ModalIdle
SpecConsumer == InitConsumer /\ [][ConsumerNext]_vars

\* saveSelectedAssignments calls against the assignments table
InitSave == ServerIdle /\ ConsumerIdle /\ SaveIdle /\ ModalIdle
SpecSave == InitSave /\ [][SaveNext]_vars

\* the upload dialog receiving the progress events of one upload
InitModal == ServerIdle /\ ConsumerIdle /\ SaveIdle /\ ModalIdle
SpecModal == InitModal /\ [][ModalNext]_vars

\* the upload dialog over several uploads, with its mutation and timers
InitDialog == ServerIdle /\ ConsumerIdle /\ SaveIdle /\ ModalIdle
SpecDialog == InitDialog /\ [][DialogNext]_vars

\* processFileWithStreaming of components/UploadModal.tsx reading one
\* response body; the fair specification lets every pending read happen
InitUpload == ServerIdle /\ UploadInit /\ SaveIdle /\ DialogIdle
SpecUpload == InitUpload /\ [][UploadNext]_vars
SpecUploadFair == SpecUpload /\ WF_vars(UploadNext)

\* saveSelectedAssignments and the steps of the reminder job
InitReminder == ServerIdle /\ ConsumerIdle /\ SaveIdle /\ ModalIdle
SpecReminder == InitReminder /\ [][ReminderNext]_vars

\* saveSelectedAssignments (two executions) and createAssignment writing
\* rows, the reminder job marking them
InitWriters == ServerIdle /\ ConsumerIdle /\ SaveIdle /\ ModalIdle
SpecWriters == InitWriters /\ [][WritersNext]_vars

\* saveSelectedAssignments, the reminder job and toggleAssignmentSubmitted
\* against the assignments table
InitTable == ServerIdle /\ ConsumerIdle /\ SaveIdle /\ ModalIdle
SpecTable == InitTable /\ [][TableNext]_vars

-----------------------------------------------------------------------------
(* Properties of the endpoint handler *)

Stages(evs) == [i \in 1..Len(evs) |-> evs[i].stage]

SelectStages(evs, S) == SelectSeq(Stages(evs), LAMBDA st : st \in S)

ErrorCount == Len(SelectStages(out, {"error"}))

IsTerminal(ev) == ev.stage \in {"complete", "error"}

\* C1: stage monotonicity: once an event of stage complete or error has been
\* written to the response stream, no further event is written, i.e. a
\* terminal event is always the last event of the stream.
C1_StageMonotonicity ==
    \A i \in 1..Len(out) : IsTerminal(out[i]) => i = Len(out)

\* C2: retry bound: the external service is invoked at most twice in one
\* request; when both attempts of extractSyllabusData fail, the finished
\* request has made exactly two invocations and holds exactly one
\* error-stage event.
C2_RetryBound ==
    /\ calls <= 2
    /\ Len(attempts) <= 2
    /\ (/\ variant = "blocking"
        /\ spc = "done"
        /\ Len(attempts) = 2
        /\ attempts[2].kind # "ok")
       => (calls = 2 /\ ErrorCount = 1)

\* two consecutive failures of different kinds, request finished
C2_Witness ==
    /\ variant = "blocking"
    /\ spc = "done"
    /\ Len(attempts) = 2
    /\ attempts[1].kind = "parse"
    /\ attempts[2].kind = "upstream"
    /\ calls = 2

Cycle == <<"analyzing", "extracting", "validating">>

\* C3: when the first response fails validation and the second passes, the
\* stages emitted after the upload events are exactly two analyzing,
\* extracting, validating cycles followed by complete, with no error event.
C3_ValidationRetryCycles ==
    (/\ variant = "blocking"
     /\ spc = "done"
     /\ Len(attempts) = 2
     /\ attempts[1].kind = "validation"
     /\ attempts[2].kind = "ok")
    => LET work == SelectStages(out, {"analyzing", "extracting", "validating",
                                      "complete", "error"})
       IN  /\ Len(work) > 6
           /\ SubSeq(work, 1, 6) = Cycle \o Cycle
           /\ \A i \in 7..Len(work) : work[i] = "complete"

C3_Witness ==
    /\ variant = "blocking"
    /\ spc = "done"
    /\ Len(attempts) = 2
    /\ attempts[1].kind = "validation"
    /\ attempts[2].kind = "ok"
    /\ out[Len(out)].stage = "complete"

\* C4: every failure kind is retried exactly once before an error event is
\* emitted, in both handlers: whenever a request that carried a file has an
\* error-stage event on its stream, the external service has been invoked
\* twice.
C4_FailureRetriedBeforeError ==
    (hasFile /\ ErrorCount > 0) => calls = 2

IsNotJson(t) == t # None /\ t[1].body = None

IsEmptyCourse(t) ==
    /\ t # None
    /\ t[1].body = Some([course |-> Some("CS1"), assignments |-> Some(<<>>)])

C5_Scenario ==
    /\ variant = "blocking"
    /\ spc = "done"
    /\ Len(attempts) = 2
    /\ IsNotJson(attempts[1].text)
    /\ IsEmptyCourse(attempts[2].text)

\* C5: upstream returns text that is not JSON, then a JSON object with a
\* course and an empty assignments array: the last event of the request is
\* complete, its data has an empty assignments list, and no error event is
\* emitted.
C5_EmptyAssignmentsValid ==
    C5_Scenario
    => /\ out[Len(out)].stage = "complete"
       /\ out[Len(out)].data # None
       /\ out[Len(out)].data[1].course = "CS1"
       /\ Len(out[Len(out)].data[1].assignments) = 0
       /\ ErrorCount = 0

C5_Witness == C5_Scenario /\ calls = 2 /\ out[Len(out)].data # None

-----------------------------------------------------------------------------
(* Properties of the stream consumer *)

IsPrefix(p, q) == Len(p) <= Len(q) /\ SubSeq(q, 1, Len(p)) = p

\* the body is N >= 1 well-formed events in the framing of the endpoint
\* handler, and the last event, and no other, is terminal
WellFormedStream ==
    /\ sent # <<>>
    /\ stream = WireBody(sent)
    /\ \A i \in 1..Len(sent) :
         /\ sent[i].stage \in StageTokens
         /\ (sent[i].stage \in {"complete", "error"}) <=> (i = Len(sent))

ExpectedCallbacks == [i \in 1..Len(sent) |-> EventOf(sent[i])]

Finished == cpc \in {"resolved", "rejected"} /\ thrown # Some(NetworkError)

\* C6: chunk-boundary independence: for a body of N well-formed events, only
\* the last one terminal, cut into read chunks in any way, uploadExtractSyllabus
\* calls onProgress once per event and in stream order: never an event that
\* is not the next one of the body, and all N by the time it finishes.
C6_ChunkBoundaryIndependence ==
    (consumer = "api" /\ WellFormedStream)
    => /\ IsPrefix(dispatched, ExpectedCallbacks)
       /\ Finished => dispatched = ExpectedCallbacks

C6_Witness ==
    /\ consumer = "api"
    /\ WellFormedStream
    /\ Len(sent) = 2
    /\ cpc = "resolved"
    /\ dispatched = ExpectedCallbacks

\* C7: when uploadExtractSyllabus decodes an error-stage event it raises the
\* enclosed error at once: the error event is the last event dispatched and
\* the call has failed with that event's error text.
C7_ErrorStopsConsumer ==
    consumer = "api"
    => \A i \in 1..Len(dispatched) :
         dispatched[i].stage = "error"
         => /\ i = Len(dispatched)
            /\ cpc = "rejected"
            /\ thrown = Some(ErrorText(dispatched[i]))

NoTerminalDispatched ==
    \A i \in 1..Len(dispatched) : dispatched[i].stage \notin {"complete", "error"}

ErrorDispatched ==
    \E i \in 1..Len(dispatched) : dispatched[i].stage = "error"

\* C8: a stream that ends with no complete and no error event dispatched is
\* never reported as success and fails with the 'stream ended unexpectedly'
\* error; that error is never reported in place of the error text of an
\* error-stage event the consumer has decoded.
C8_TruncationIsDistinctError ==
    /\ (ended /\ NoTerminalDispatched)
       => (cpc = "rejected" /\ thrown = Some(StreamEnded))
    /\ thrown = Some(StreamEnded) => ~ErrorDispatched

\* C9: when uploadExtractSyllabus decodes a complete-stage event it records
\* that event's payload and stops: the complete event is the last event
\* dispatched and the call has resolved with exactly that event's data.
C9_CompleteStopsConsumer ==
    consumer = "api"
    => \A i \in 1..Len(dispatched) :
         dispatched[i].stage = "complete"
         => /\ i = Len(dispatched)
            /\ cpc = "resolved"
            /\ returned = dispatched[i].data

-----------------------------------------------------------------------------
(* Properties of the persistence step *)

ValidDate(date) ==
    date.wf /\ date.m \in 1..12 /\ date.d \in 1..DaysInMonth(date.y, date.m)

ValidTime(t) == t.kind = "string" /\ t.wf /\ t.h \in 0..23 /\ t.mi \in 0..59

\* reading a stored timestamp back: its calendar day and its time of day
Year2026 == {date \in [wf : {TRUE}, y : {2026}, m : 1..12, d : 1..31] : ValidDate(date)}
CalendarDay(ts) ==
    CHOOSE date \in Year2026 : DayNumber(date.y, date.m, date.d) = ts \div 86400
TimeOfDay(ts) == ts % 86400
Clock(h, mi, sec) == (h * 60 + mi) * 60 + sec

RowOf(name) == CHOOSE r \in db : Collides(r, name)

\* C10: a draft whose due_time is absent or null (or empty) and whose due_date
\* is a valid date is written, and the row written holds that date at
\* 23:59:00; a draft with a present, valid due_time and a valid date is
\* written with that date at that time.
C10_EndOfDayDefault ==
    saveCall.item # None
    => LET draft == saveCall.item[1].draft
           outcome == saveCall.item[1].outcome
       IN  ValidDate(draft.due_date) /\ (Falsy(draft.due_time) \/ ValidTime(draft.due_time))
           => /\ outcome # "invalid"
              /\ outcome = "written"
                 => /\ \E r \in db : Collides(r, draft.name)
                    /\ CalendarDay(RowOf(draft.name).dueDateTime) = draft.due_date
                    /\ TimeOfDay(RowOf(draft.name).dueDateTime) =
                         IF Falsy(draft.due_time) THEN Clock(23, 59, 0)
                         ELSE Clock(draft.due_time.h, draft.due_time.mi, 0)

\* {name: "HW1", due_date: "2026-02-15", due_time: null} was written:
\* 2026-02-15 is day 45 of the year
C10_Witness ==
    /\ saveCall.item = Some([draft |-> [name |-> "HW1", description |-> NoDescription,
                                        due_date |-> Date(2026, 2, 15),
                                        due_time |-> NoTime("null")],
                             outcome |-> "written"])
    /\ \E r \in db :
         /\ r.courseName = "CS 405"
         /\ r.assignmentName = "HW1"
         /\ r.dueDateTime = 45 * 86400 + 23 * 3600 + 59 * 60
         /\ ~r.notificationSent
         /\ ~r.submitted

\* a step of saveSelectedAssignments that wrote a draft
WroteDraft == saveCall'.successCount = saveCall.successCount + 1

\* the draft of the loop body that has just run
WrittenDraft == saveCall'.item[1].draft

RowsOf(rows, name) == {r \in rows : Collides(r, name)}

\* C11: when saveSelectedAssignments writes a draft whose (courseName,
\* assignmentName) already has a row (whatever its description, due date and
\* notificationSent), the table still has exactly one row for that key and as
\* many rows as before; that row has the description of the draft ("" if
\* none) and notificationSent = false, and for a calendar date its dueDateTime
\* is the date of the draft at 23:59:00 (the drafts of SpecTable have no time).
C11_UpsertIdempotence ==
    [][(WroteDraft /\ RowsOf(db, WrittenDraft.name) # {})
       => /\ Cardinality(RowsOf(db', WrittenDraft.name)) = 1
          /\ Cardinality(db') = Cardinality(db)
          /\ \A r \in RowsOf(db', WrittenDraft.name) :
               /\ r.description = (IF WrittenDraft.description = NoDescription
                                     THEN "" ELSE WrittenDraft.description)
               /\ ~r.notificationSent
               /\ ValidDate(WrittenDraft.due_date)
                  => /\ CalendarDay(r.dueDateTime) = WrittenDraft.due_date
                     /\ TimeOfDay(r.dueDateTime) = Clock(23, 59, 0)]_vars

\* HW1 was written twice by one call, the second time as
\* {name: "HW1", due_date: "2026-02-15", due_time: null} without description:
\* one row, with the id of the first write and the values of the second
C11_Witness ==
    /\ saveCall.successCount = 2
    /\ saveCall.errors = <<>>
    /\ saveCall.item = Some([draft |-> [name |-> "HW1", description |-> NoDescription,
                                        due_date |-> Date(2026, 2, 15),
                                        due_time |-> NoTime("null")],
                             outcome |-> "written"])
    /\ nextId = 2
    /\ db = {[id |-> 1, courseName |-> "CS 405", assignmentName |-> "HW1",
              description |-> "", dueDateTime |-> 45 * 86400 + 23 * 3600 + 59 * 60,
              notificationSent |-> FALSE, submitted |-> FALSE]}

\* the loop body has just run on a draft, with this outcome
Processed(outcome) ==
    /\ saveCall.phase = "running"
    /\ saveCall'.item # None
    /\ saveCall'.item[1].outcome = outcome
    /\ saveCall' # saveCall

\* the message of an item error names the draft
MessageFor(draft) == {[kind |-> k, name |-> draft.name] : k \in {"invalid", "failed"}}

C13_FailureOnlyWithErrors ==
    (saveCall.phase = "returned" /\ saveCall.ret # None)
    => (~saveCall.ret[1].success
        <=> (saveCall.successCount = 0 /\ Len(saveCall.errors) > 0))

SameKey(r1, r2) ==
    r1.courseName = r2.courseName /\ r1.assignmentName = r2.assignmentName

\* C14: in every step, a row whose key had no row before is a new row with
\* submitted = false, notificationSent = false and an id no row had; a row
\* whose key had a row keeps that row's id; and when its submitted differs
\* from before, the step is not one of saveSelectedAssignments (the call's
\* state is untouched) and submitted is the only column that changed.
C14_UpsertKeepsSubmitted ==
    [][\A new \in db' :
         IF \E old \in db : SameKey(old, new)
           THEN \A old \in db :
                  SameKey(old, new)
                  => /\ new.id = old.id
                     /\ WroteDraft => new.submitted = old.submitted
                     /\ new.submitted # old.submitted
                        => /\ saveCall' = saveCall
                           /\ new = [old EXCEPT !.submitted = ~old.submitted]
           ELSE /\ WroteDraft
                /\ ~new.submitted
                /\ ~new.notificationSent
                /\ \A old \in db : old.id # new.id]_vars

\* HW1 was written twice by one call and its row, marked submitted by the
\* user, still has the id of the first write
C14_Witness ==
    /\ saveCall.successCount = 2
    /\ saveCall.item # None
    /\ saveCall.item[1].outcome = "written"
    /\ saveCall.item[1].draft.name = "HW1"
    /\ nextId = 2
    /\ \E r \in db :
         r.assignmentName = "HW1" /\ r.id = 1 /\ r.submitted /\ ~r.notificationSent

-----------------------------------------------------------------------------
(* Properties of the validator and of the terminal events *)

\* the texts that are a calendar date written YYYY-MM-DD
DateTexts == {"2026-02-15", "2026-03-01"}

WellFormedAssignment(d) == d.name[1] # "" /\ d.due_date[1] \in DateTexts

\* C15: the data of every complete event, that is every candidate the
\* validator accepted, has a non-empty course, and every assignment of it has
\* a non-empty name and a due_date that is a YYYY-MM-DD date.
C15_ValidatorChecksContent ==
    \A i \in 1..Len(out) :
      (out[i].stage = "complete" /\ out[i].data # None)
      => /\ out[i].data[1].course # ""
         /\ \A k \in 1..Len(out[i].data[1].assignments) :
              WellFormedAssignment(out[i].data[1].assignments[k])

\* C16: a complete event is on the response stream only when the validator
\* has accepted a result, and every complete event carries that accepted
\* structure as its data together with a summary message.
C16_CompleteCarriesDataAndMessage ==
    \A i \in 1..Len(out) :
      out[i].stage = "complete"
      => /\ result # None
         /\ result[1].success
         /\ out[i].data = Some(result[1].data[1])
         /\ out[i].message # None

-----------------------------------------------------------------------------
(* Properties of the upload dialog *)

IsFragment(event) == event.partialData # None

RECURSIVE LastCourse(_)
\* the last non-empty course a fragment of evs supplied, "" if none did
LastCourse(evs) ==
    IF evs = <<>> THEN ""
    ELSE LET f == evs[Len(evs)].partialData[1] IN
         IF f.course # None /\ f.course[1] # "" THEN f.course[1]
         ELSE LastCourse(SubSeq(evs, 1, Len(evs) - 1))

RECURSIVE LastList(_)
\* the array of the last fragment of evs whose array was non-empty, the
\* empty array if none was
LastList(evs) ==
    IF evs = <<>> THEN <<>>
    ELSE LET f == evs[Len(evs)].partialData[1] IN
         IF f.assignments # None /\ f.assignments[1] # <<>> THEN f.assignments[1]
         ELSE LastList(SubSeq(evs, 1, Len(evs) - 1))

\* C17: when handleProgress has been called with partialData fragments only,
\* the working value, once there is one, has the last non-empty course of the
\* fragments and the array of the last fragment whose array was non-empty.
C17_PartialMergeRule ==
    (\A i \in 1..Len(handled) : IsFragment(handled[i]))
    => (modal.extractedData # None
        => /\ modal.extractedData[1].course = LastCourse(handled)
           /\ modal.extractedData[1].assignments = LastList(handled))

-----------------------------------------------------------------------------
(* Properties of the ends of a request *)

\* C18: a request without a file never reaches the external service and is
\* never retried; when the handler is done its stream holds exactly one
\* error event, "No file provided", as its last event, no complete event, and
\* has been closed once.
C18_NoFileIsTerminal ==
    ~hasFile
    => /\ calls = 0
       /\ attempts = <<>>
       /\ retryCount = 0
       /\ spc \in {"start", "done"}
       /\ spc = "done"
          => /\ ErrorCount = 1
             /\ out[Len(out)] = ErrorEvent("No file provided")
             /\ SelectStages(out, {"complete"}) = <<>>
             /\ closed = 1

C18_Witness == ~hasFile /\ spc = "done" /\ closed = 1 /\ ErrorCount = 1

-----------------------------------------------------------------------------
(* Properties of the reader *)

\* C19: when the read loop has been left, with success or with failure, the
\* reader obtained from the response body has been released.
C19_ReaderReleasedOnExit ==
    cpc \in {"resolved", "rejected"} => ~locked

-----------------------------------------------------------------------------
(* Properties of the outbound stream *)

\* C20: in every step of the handler: the stream is never closed twice and is
\* closed when the handler is done; events are only appended, in the order
\* of emission; nothing is appended once the stream is closed; and a terminal
\* (complete or error) event is the last event of the stream and is written
\* together with the close.
C20_ClosedOnceAfterTerminal ==
    [][/\ closed' <= 1
       /\ spc' = "done" => closed' = 1
       /\ IsPrefix(out, out')
       /\ closed >= 1 => out' = out
       /\ \A i \in 1..Len(out') :
            IsTerminal(out'[i]) => (i = Len(out') /\ closed' = 1)]_vars

-----------------------------------------------------------------------------
(* Properties of the stage announcements *)

\* the attempts whose candidate reached the validation (the service answered)
ValidatedAttempts == {i \in 1..Len(attempts) : attempts[i].kind # "upstream"}

\* C21: per attempt exactly one analyzing event is emitted, with the
\* invocation of the external service, and exactly one validating event, with
\* the validation of the candidate: the stream holds as many analyzing events
\* as invocations and as many validating events as validations.
C21_StageAnnouncedOnce ==
    /\ Len(SelectStages(out, {"analyzing"})) = calls
    /\ Len(SelectStages(out, {"validating"})) = Cardinality(ValidatedAttempts)

-----------------------------------------------------------------------------
(* Properties of the handler on a broken transport *)

\* C22: once writes to the response stream fail, the external service is not
\* invoked again after it has been invoked, and when the handler is done it
\* has tried to write a terminal error event at most once and has called
\* controller.close() once.
C22_WriteFailureBestEffort ==
    [][/\ (transport = "broken" /\ calls >= 1) => calls' = calls
       /\ (transport' = "broken" /\ spc' = "done")
          => /\ errorWrites' <= 1
             /\ closed' = 1]_vars

-----------------------------------------------------------------------------
(* Properties of the error text of the blocking handler *)

\* the fields of a parsed object that the schema finds missing
DefectiveFields(v) ==
    (IF v.course = None THEN {<<"course">>} ELSE {})
    \cup (IF v.assignments = None THEN {<<"assignments">>}
          ELSE {<<"assignments", IndexText(i), "name">> :
                  i \in {k \in 1..Len(v.assignments[1]) :
                           v.assignments[1][k].name = None}}
               \cup {<<"assignments", IndexText(i), "due_date">> :
                  i \in {k \in 1..Len(v.assignments[1]) :
                           v.assignments[1][k].due_date = None}})

SecondFailure(kind) ==
    /\ variant = "blocking"
    /\ spc = "done"
    /\ Len(attempts) = 2
    /\ attempts[2].kind = kind
    /\ ~result[1].success

\* C23: the error event after a second failure. Validation: its text has one
\* line per defective field of the second candidate, each with the path of
\* the field and a message. Parse: its text holds an excerpt of the second
\* raw response that starts at its first character and is at most 200
\* characters long, hence shorter than a response of more than 200.
C23_ErrorTextBounded ==
    /\ SecondFailure("validation")
       => LET e == out[Len(out)].error[1]
              v == attempts[2].text[1].body[1]
          IN  /\ e.kind = "validation"
              /\ Len(e.lines) = Cardinality(DefectiveFields(v))
              /\ {e.lines[k].path : k \in 1..Len(e.lines)} = DefectiveFields(v)
              /\ \A k \in 1..Len(e.lines) : e.lines[k].message # ""
    /\ SecondFailure("parse")
       => LET e == out[Len(out)].error[1]
              t == attempts[2].text[1]
          IN  /\ e.kind = "parse"
              /\ e.excerpt[1].of = t
              /\ e.excerpt[1].length <= 200
              /\ e.excerpt[1].length <= t.length
              /\ t.length > 200 => e.excerpt[1].length < t.length

\* the second response, of 250 characters, was not JSON either
C23_Witness ==
    /\ SecondFailure("parse")
    /\ attempts[2].text[1].length = 250
    /\ out[Len(out)].error[1].excerpt[1].length = 200

-----------------------------------------------------------------------------
(* Properties of the upload dialog over several uploads *)

\* C24: whenever the review modal is open (showReviewModal is set and there
\* is a value to render it with), the course and assignments it would save
\* are the data of the complete event, not a value merged from fragments.
C24_ReviewShowsCompleteData ==
    (modal.showReviewModal /\ modal.extractedData # None)
    => modal.extractedData[1] = FinalData

\* C30: a call of processFileWithStreaming runs uploadExtractSyllabus, hence
\* sends its POST, at most once, whether the request succeeds or fails.
C30_OneRequestPerUpload ==
    \A k \in 1..Len(mutations) : mutations[k].requests <= 1

-----------------------------------------------------------------------------
(* Properties of the writers of the assignments table *)

C26_CollidingWriteResets ==
    [][\A old \in db : \A new \in db' :
         (new.id = old.id
          /\ (new.dueDateTime # old.dueDateTime \/ new.description # old.description))
         => ~new.notificationSent]_vars

\* C27: when a step of the reminder job marks a row as notified, the
\* reminder that was just sent announced the dueDateTime the row has now.
C27_ResetSurvivesReminder ==
    [][\A old \in db : \A new \in db' :
         (new.id = old.id /\ ~old.notificationSent /\ new.notificationSent)
         => /\ reminder'.last # None
            /\ reminder'.last[1].id = new.id
            /\ reminder'.last[1].dueDateTime = new.dueDateTime]_vars

-----------------------------------------------------------------------------
(* Properties of the stream consumers at the end of a stream *)

\* C29: uploadExtractSyllabus fails before the end of the stream only on an
\* error-stage event (or a failed read): a data line that is not JSON does
\* not end the call.
C29_JunkLineSkipped ==
    (consumer = "api" /\ cpc = "rejected" /\ ~ended /\ thrown # Some(NetworkError))
    => \E i \in 1..Len(dispatched) : dispatched[i].stage = "error"

\* C28: the dialog leaves the processing state: however the response stream
\* ends, isProcessing is eventually false.
C28_ProcessingEnds == <>(~isProcessing)

=============================================================================
